---- MODULE Spec2Model ----
(***************************************************************************)
(* Incremental batch-training engine (utils/incremental.py) and the        *)
(* training script that calls it (entrenar_modelo.py), as a state machine. *)
(*                                                                         *)
(* Rows are the indices 0..n-1 of X.  A pipeline is a record: st is its    *)
(* learned state ("none": no object, "unfit": nothing fitted, "fit":       *)
(* fitted, "stale": a live pipeline whose fit raised part-way, "half": a   *)
(* clone whose fit raised part-way and whose estimator was never fitted),  *)
(* on is the set of rows of its last successful fit and r2 the R2 of its   *)
(* predictions on the evaluation rows, as an ordinal level 0..MaxScore     *)
(* (known for st = "fit" only, NegInf otherwise).                          *)
(***************************************************************************)
EXTENDS Integers, Sequences, FiniteSets, TLC

\* ------------------------------------------------------------- bounds
MaxRows == 2
MaxEpochs == 2
MaxScore == 1
MaxRuns == 2
MaxMuestras == 6
MaxObjetivos == 2
MaxCols == 2

\* ------------------------------------------------ program constants
\* mejor_score = -np.inf: below every score level
NegInf == -1
\* n_eval = min(1000, X.shape[0])
N_EVAL == 1000
\* initial_size = min(batch_size * 10, X.shape[0])
WARM_FACTOR == 10
\* evaluar_modelo(..., cv=5): KFold(n_splits=cv)
CV_FOLDS == 5

VARIABLES
    nX, nY,          \* X.shape[0], y.shape[0]
    batch_size, n_epochs,
    pc,              \* position in entrenar_por_lotes
    modelo,          \* the live pipeline, refitted in place
    mejor_modelo,    \* the retained checkpoint (NoModel: None)
    mejor_score,
    indices,         \* the permutation shuffled every epoch
    indices_eval,    \* rows of X_eval, y_eval
    epoch, start_idx,
    score,           \* the score of the batch being processed
    modelo_final,    \* what line 119 selected: "none", "mejor_modelo", "modelo"
    returned,        \* what line 133 returned: "none", "mejor_modelo", "modelo"
    error,           \* the exception that left the function, "" if none
    resultados,      \* what evaluar_modelo returned for the key cv
    artifacts,       \* files written in directorio_salida
    hist,            \* history of the run (bookkeeping, read by no action guard)
    \* entrenar_modelo.py, main()
    main_pc,         \* position in main
    incremental,     \* args.incremental
    bundle,          \* the file at ruta_modelo: {'modelo': ..., 'columnas': ...}
    columnas_procesadas, \* third value returned by the column selection
    Xcols,           \* columns of the DataFrame X
    m_modelo,        \* main's variable modelo
    drift_log,       \* the feature warning printed at lines 90-92 / 113-116
    main_error,      \* the exception that ended main, "" if none
    runs,            \* executions of the script so far
    m_resultados,    \* main's variable resultados (line 138)
    resultados_json, \* the content of resultados_modelo.json in args.salida
    \* a second call of entrenar_por_lotes with the same arguments
    anterior,        \* the arguments and the random draws of the first call
    \* evaluacion.py, evaluar_modelo called on its own
    ev_args,         \* what the call was given, and how its library calls end
    ev_result,       \* what the call returned, or that it raised
    \* train_column.py, seleccionar_columnas_entrenamiento called on its own
    sel_args,        \* which of the two copies, df.columns, columnas_objetivo
    sel_result,      \* the returned X, y, columnas, or the exception
    \* addons/ai_train_model: one button handler of the Odoo module
    a_name,          \* the handler: "descargar", "verificar", "importar", "entrenar"
    a_pc,            \* position in the handler
    a_in,            \* the record's fields the handler reads
    tmp,             \* temporary files and directories that exist on disk
    a_exc,           \* the exception travelling to the handler's except clause
    a_raised,        \* what left the handler: "" or the exception, a wrapping
                     \* UserError(str(e)) named by the e it wraps
    estado,          \* the status field the handler writes (estado,
                     \* estado_actual or estado_verificacion)
    returncode,      \* proceso.returncode of the training script
    registro,        \* other fields of the record the handler writes: progreso,
                     \* and whether this run stored a file in it (archivo_csv
                     \* or modelos_generados)
    \* the feature matrix on its way from main to the warm-start fit
    imp_pc,          \* "main" (line 97), "engine" (entrenar_por_lotes called),
                     \* "warm" (handed to the warm-start fit), "fitted"
    imp_X            \* its container type and its cells, column by column

engine_vars == <<nX, nY, batch_size, n_epochs, pc, modelo, mejor_modelo,
                 mejor_score, indices, indices_eval, epoch, start_idx, score,
                 modelo_final, returned, error, resultados, artifacts, hist>>

main_vars == <<main_pc, incremental, bundle, columnas_procesadas, Xcols,
               m_modelo, drift_log, main_error, runs, m_resultados,
               resultados_json>>

\* state of the other components while one of them runs
eval_vars == <<ev_args, ev_result>>

sel_vars == <<sel_args, sel_result>>

addon_vars == <<a_name, a_pc, a_in, tmp, a_exc, a_raised, estado, returncode,
                registro>>

imp_vars == <<imp_pc, imp_X>>

aux_vars == <<anterior, eval_vars, sel_vars, addon_vars, imp_vars>>

vars == <<engine_vars, main_vars, aux_vars>>

\* ------------------------------------------------------------ helpers
Scores == 0..MaxScore

Min(a, b) == IF a < b THEN a ELSE b

Max(a, b) == IF a > b THEN a ELSE b

Rows(n) == 0..(n - 1)

\* np.arange(n)
Arange(n) == [i \in 1..n |-> i - 1]

Range(s) == {s[i] : i \in DOMAIN s}

\* the orders np.random.shuffle can leave an n-element index array in
Permutations_(n) ==
    {p \in [1..n -> Rows(n)] : \A i, j \in 1..n : p[i] = p[j] => i = j}

\* np.random.choice(n, k, replace=False): k distinct rows (as a set)
Choice(n, k) == {S \in SUBSET Rows(n) : Cardinality(S) = k}

NoModel == [st |-> "none", on |-> {}, r2 |-> NegInf]

\* Pipeline([...]) as built by the factory, and clone(modelo): no learned state
PipelineUnfit == [st |-> "unfit", on |-> {}, r2 |-> NegInf]

crear_pipeline_incremental == PipelineUnfit

\* a pipeline loaded from a bundle of an earlier run
PipelineLoaded == [st |-> "fit", on |-> {}, r2 |-> 0]

\* modelo.fit(X[rows], y[rows]) returning: a full refit, earlier state is lost
FitOk(rows, r) == [st |-> "fit", on |-> rows, r2 |-> r]

\* modelo.fit raising: the steps fitted before the failure keep their new state
\* (it still predicts, with an R2 the run never measures), or nothing changed
FitRaised(m) ==
    {m} \cup (IF m.st \in {"fit", "stale"}
              THEN {[st |-> "stale", on |-> m.on, r2 |-> NegInf]}
              ELSE {[st |-> "half", on |-> {}, r2 |-> NegInf]})

\* fit of a clone raising: the clone's estimator was never fitted
CloneFitRaised == {PipelineUnfit, [st |-> "half", on |-> {}, r2 |-> NegInf]}

\* y[idx] with idx an index array: IndexError when an index is out of bounds
IndexErrorY(rows) == \E i \in rows : i >= nY

\* variant of the slice: the end index counts one row too many
end_idx_solapa == Min(start_idx + batch_size + 1, nX)

\* the batch of the inner loop, lines 90-91
end_idx == Min(start_idx + batch_size, nX)

batch_indices == {indices[i] : i \in (start_idx + 1)..end_idx}

\* range(0, n_samples, batch_size): number of batches of one epoch
NBatches == (nX + batch_size - 1) \div batch_size

\* variants of the selection: no fallback to the live pipeline; always the
\* live pipeline
Seleccion_sin_respaldo ==
    IF mejor_modelo.st # "none" THEN "mejor_modelo" ELSE "none"

Seleccion_ultimo == "modelo"

\* line 119 and line 133
Seleccion == IF mejor_modelo.st # "none" THEN "mejor_modelo" ELSE "modelo"

HistInit ==
    [fit_called |-> FALSE,      \* some fit was called on a pipeline
     warm_r2 |-> NegInf,        \* R2 of the model right after the warm start
     max_seen |-> NegInf,       \* highest score computed at line 101
     best_batch |-> <<>>,       \* <<epoch, start_idx>> of the first batch reaching it
     mejor_from |-> <<>>,       \* batch during which mejor_modelo was cloned
     tried |-> 0,               \* batch fits attempted
     raised |-> FALSE,          \* the processing of some batch raised
     report_failed |-> FALSE,   \* the try block of lines 117-128 raised
     refit_in_report |-> FALSE] \* generar_informe refitted the final model

\* the dictionary evaluar_modelo has not returned; no metrics file
NoResultados == <<>>

\* no file at ruta_modelo
NoBundle == [exists |-> FALSE, kind |-> "none", n_out |-> 0, columnas |-> {}]

\* main's modelo before it is assigned
NoPipeline == [origin |-> "none", kind |-> "none", n_out |-> 0]

\* nothing printed about the features
NoDrift == [faltantes |-> {}, nuevas |-> {}, anteriores |-> 0, actuales |-> 0,
            logged |-> FALSE]

\* main variables while the engine is called on its own
MainIdle ==
    /\ main_pc = "off"
    /\ incremental = FALSE
    /\ bundle = NoBundle
    /\ columnas_procesadas = {}
    /\ Xcols = {}
    /\ m_modelo = NoPipeline
    /\ drift_log = NoDrift
    /\ main_error = ""
    /\ runs = 0
    /\ m_resultados = NoResultados
    /\ resultados_json = NoResultados

\* engine variables while main runs (the call is summarised in Train)
EngineIdle ==
    /\ nX = 0
    /\ nY = 0
    /\ batch_size = 1
    /\ n_epochs = 0
    /\ pc = "off"
    /\ modelo = NoModel
    /\ mejor_modelo = NoModel
    /\ mejor_score = NegInf
    /\ indices = <<>>
    /\ indices_eval = {}
    /\ epoch = 0
    /\ start_idx = 0
    /\ score = NegInf
    /\ modelo_final = "none"
    /\ returned = "none"
    /\ error = ""
    /\ resultados = "none"
    /\ artifacts = {}
    /\ hist = HistInit

\* no call of the engine has ended yet
NoCall == [llamada |-> 0, modelo |-> NoModel, indices |-> <<>>,
           indices_eval |-> {}]

\* evaluar_modelo was not called
NotCalled == [called |-> FALSE, raised |-> FALSE, resultados |-> NoResultados]

NoEvalArgs == [n |-> 0, cv_scores |-> "ok", X_val |-> FALSE, y_val |-> FALSE,
               predict |-> "ok"]

EvalIdle ==
    /\ ev_args = NoEvalArgs
    /\ ev_result = NotCalled

\* seleccionar_columnas_entrenamiento was not called
NotSelected == [called |-> FALSE, raised |-> "", X |-> {}, y |-> <<>>,
                columnas |-> <<>>]

NoSelArgs == [version |-> "utils", columns |-> {}, columnas_objetivo |-> <<>>]

SelIdle ==
    /\ sel_args = NoSelArgs
    /\ sel_result = NotSelected

NoInput == [datos |-> FALSE, seleccion |-> FALSE, extension |-> FALSE]

\* progreso (default 0.0), no file stored by this run
NoRegistro == [progreso |-> 0, archivo |-> FALSE]

\* no handler of the Odoo module runs
AddonIdle ==
    /\ a_name = "none"
    /\ a_pc = "off"
    /\ a_in = NoInput
    /\ tmp = {}
    /\ a_exc = ""
    /\ a_raised = ""
    /\ estado = ""
    /\ returncode = 0
    /\ registro = NoRegistro

NoX == [tipo |-> "none", columnas |-> <<>>]

\* no feature matrix is followed
ImpIdle ==
    /\ imp_pc = "off"
    /\ imp_X = NoX

\* the other components while the engine or the script runs
AuxIdle ==
    /\ anterior = NoCall
    /\ EvalIdle
    /\ SelIdle
    /\ AddonIdle
    /\ ImpIdle

\* ------------------------------------------------------------- engine
\* the caller's arguments
EngineInit ==
    /\ nX \in 0..MaxRows
    /\ nY \in 0..MaxRows
    /\ batch_size \in 1..MaxRows
    /\ n_epochs \in 0..MaxEpochs
    /\ modelo \in {NoModel, PipelineUnfit, PipelineLoaded}
    /\ pc = "start"
    /\ mejor_modelo = NoModel
    /\ mejor_score = NegInf
    /\ indices = <<>>
    /\ indices_eval = {}
    /\ epoch = 0
    /\ start_idx = 0
    /\ score = NegInf
    /\ modelo_final = "none"
    /\ returned = "none"
    /\ error = ""
    /\ resultados = "none"
    /\ artifacts = {}
    /\ hist = HistInit

Init ==
    /\ EngineInit
    /\ MainIdle
    /\ AuxIdle

\* variant: the failure is recorded and the run goes on with the epochs
Raise_sigue(e) ==
    /\ pc' = "epoch"
    /\ error' = e

\* an exception outside every try block leaves entrenar_por_lotes
Raise(e) ==
    /\ pc' = "Failed"
    /\ error' = e

\* lines 59-72: create the pipeline if None, draw the warm-start rows, fit
WarmStart ==
    /\ pc = "start"
    /\ LET m0 == IF modelo.st = "none" THEN crear_pipeline_incremental ELSE modelo
           initial_size == Min(batch_size * WARM_FACTOR, nX)
       IN \E indices_iniciales \in Choice(nX, initial_size) :
            IF IndexErrorY(indices_iniciales)
            THEN /\ Raise("IndexError")
                 /\ modelo' = m0
                 /\ hist' = hist
            ELSE \/ /\ indices_iniciales # {}
                    /\ \E r \in Scores :
                         /\ modelo' = FitOk(indices_iniciales, r)
                         /\ hist' = [hist EXCEPT !.fit_called = TRUE, !.warm_r2 = r]
                    /\ pc' = "holdout"
                    /\ error' = error
                 \/ /\ modelo' \in FitRaised(m0)
                    /\ hist' = [hist EXCEPT !.fit_called = TRUE]
                    /\ Raise("FitError")
    /\ UNCHANGED <<nX, nY, batch_size, n_epochs, mejor_modelo, mejor_score,
                   indices, indices_eval, epoch, start_idx, score,
                   modelo_final, returned, resultados, artifacts>>
    /\ UNCHANGED <<main_vars, aux_vars>>

\* lines 75-82: loop variables and the fixed evaluation rows
DrawHoldout ==
    /\ pc = "holdout"
    /\ indices' = Arange(nX)
    /\ mejor_score' = NegInf
    /\ mejor_modelo' = NoModel
    /\ LET n_eval == Min(N_EVAL, nX)
       IN \E ev \in Choice(nX, n_eval) :
            /\ indices_eval' = ev
            /\ IF IndexErrorY(ev)
               THEN Raise("IndexError")
               ELSE /\ pc' = "epoch"
                    /\ error' = error
    /\ epoch' = 0
    /\ UNCHANGED <<nX, nY, batch_size, n_epochs, modelo, start_idx, score,
                   modelo_final, returned, resultados, artifacts, hist>>
    /\ UNCHANGED <<main_vars, aux_vars>>

\* line 85-87: for epoch in range(n_epochs): shuffle
EpochStart ==
    /\ pc = "epoch"
    /\ IF epoch < n_epochs
       THEN /\ indices' \in Permutations_(nX)
            /\ start_idx' = 0
            /\ pc' = "batch"
       ELSE /\ pc' = "finalize"
            /\ UNCHANGED <<indices, start_idx>>
    /\ UNCHANGED <<nX, nY, batch_size, n_epochs, modelo, mejor_modelo,
                   mejor_score, indices_eval, epoch, score, modelo_final,
                   returned, error, resultados, artifacts, hist>>
    /\ UNCHANGED <<main_vars, aux_vars>>

\* lines 89-94: for start_idx in range(0, n_samples, batch_size): slice the batch
BatchStart ==
    /\ pc = "batch"
    /\ IF start_idx < nX
       THEN /\ IF IndexErrorY(batch_indices)
               THEN Raise("IndexError")
               ELSE /\ pc' = "fit"
                    /\ error' = error
            /\ epoch' = epoch
       ELSE /\ epoch' = epoch + 1
            /\ pc' = "epoch"
            /\ error' = error
    /\ UNCHANGED <<nX, nY, batch_size, n_epochs, modelo, mejor_modelo,
                   mejor_score, indices, indices_eval, start_idx, score,
                   modelo_final, returned, resultados, artifacts, hist>>
    /\ UNCHANGED <<main_vars, aux_vars>>

\* variant of the loop: the epoch stops once a batch reached the top score
NextBatch_parada ==
    /\ start_idx' = IF Max(mejor_score, score) = MaxScore
                    THEN nX ELSE start_idx + batch_size
    /\ pc' = "batch"
    /\ error' = error

\* line 89: the next start_idx of range(0, n_samples, batch_size)
NextBatch ==
    /\ start_idx' = start_idx + batch_size
    /\ pc' = "batch"
    /\ error' = error

\* variant of the handler: break out of the epoch instead of continue
ExceptBreak ==
    /\ start_idx' = nX
    /\ pc' = "batch"
    /\ error' = error

\* lines 110-112: except Exception: log, continue
ExceptContinue == NextBatch

\* line 98: modelo.fit(X_batch, y_batch)
BatchFit ==
    /\ pc = "fit"
    /\ \/ /\ \E r \in Scores : modelo' = FitOk(batch_indices, r)
          /\ pc' = "score"
          /\ start_idx' = start_idx
          /\ error' = error
          /\ hist' = [hist EXCEPT !.fit_called = TRUE, !.tried = @ + 1]
       \/ /\ modelo' \in FitRaised(modelo)
          /\ ExceptContinue
          /\ hist' = [hist EXCEPT !.fit_called = TRUE, !.tried = @ + 1,
                                  !.raised = TRUE]
    /\ UNCHANGED <<nX, nY, batch_size, n_epochs, mejor_modelo, mejor_score,
                   indices, indices_eval, epoch, score, modelo_final,
                   returned, resultados, artifacts>>
    /\ UNCHANGED <<main_vars, aux_vars>>

\* line 101: score = r2_score(y_eval, modelo.predict(X_eval))
BatchScore ==
    /\ pc = "score"
    /\ \/ /\ score' = modelo.r2
          /\ pc' = "update"
          /\ start_idx' = start_idx
          /\ error' = error
          /\ hist' = [hist EXCEPT
                        !.max_seen = Max(@, modelo.r2),
                        !.best_batch = IF modelo.r2 > hist.max_seen
                                       THEN <<epoch, start_idx>> ELSE @]
       \/ /\ ExceptContinue
          /\ score' = score
          /\ hist' = [hist EXCEPT !.raised = TRUE]
    /\ UNCHANGED <<nX, nY, batch_size, n_epochs, modelo, mejor_modelo,
                   mejor_score, indices, indices_eval, epoch, modelo_final,
                   returned, resultados, artifacts>>
    /\ UNCHANGED <<main_vars, aux_vars>>

\* variants of the comparison: ties replace; every scored batch replaces
Improves_ge == score >= mejor_score

Improves_siempre == TRUE

\* line 103: if score > mejor_score
Improves == score > mejor_score

\* lines 103-106: keep a clone refitted on the batch when the score improves;
\* mejor_score and mejor_modelo are assigned before the clone is fitted
BatchUpdate ==
    /\ pc = "update"
    /\ IF Improves
       THEN /\ mejor_score' = score
            /\ \/ /\ mejor_modelo' = FitOk(batch_indices, modelo.r2)
                  /\ hist' = [hist EXCEPT !.mejor_from = <<epoch, start_idx>>]
                  /\ NextBatch
               \/ /\ mejor_modelo' \in CloneFitRaised
                  /\ hist' = [hist EXCEPT !.mejor_from = <<epoch, start_idx>>,
                                          !.raised = TRUE]
                  /\ ExceptContinue
       ELSE /\ UNCHANGED <<mejor_score, mejor_modelo, hist>>
            /\ NextBatch
    /\ UNCHANGED <<nX, nY, batch_size, n_epochs, modelo, indices, indices_eval,
                   epoch, score, modelo_final, returned, resultados, artifacts>>
    /\ UNCHANGED <<main_vars, aux_vars>>

\* variant of the test: the reporter always refits
ImputerUnfitted_siempre(m) == m.st # "none"

\* evaluacion.py line 80: the reporter refits a pipeline whose imputer has
\* no statistics_
ImputerUnfitted(m) == m.st = "unfit"

\* modelo.predict(X_val) needs every step fitted
CanPredict(m) == m.st \in {"fit", "stale"}

\* keys of resultados['cv'] and of resultados['validation']
CvMetricas == {"r2_mean", "r2_std", "rmse_mean", "rmse_std", "mse_mean", "mse_std"}

ValMetricas == {"r2", "rmse", "mse"}

\* how the two cross_val_score calls can end when the folds can be built:
\* finite scores, scores with NaN (error_score of a failed fold), an exception
CvOutcomes == {"ok", "nan", "raise"}

\* how lines 49-52 (predict, mean_squared_error, r2_score) can end
PredictOutcomes == {"ok", "ValueError", "Exception"}

\* evaluacion.py lines 20-22: KFold raises when there are fewer samples than
\* folds
cross_val_score(n, outcome) == IF n < CV_FOLDS THEN "raise" ELSE outcome

\* lines 27-34: means and standard deviations of the fold scores
CvTry(outcome) == [k \in CvMetricas |-> IF outcome = "nan" THEN "nan" ELSE "valor"]

\* variant of the handler: only the R2 entries are marked
CvExcept_parcial ==
    [k \in CvMetricas \cup {"error"} |->
        IF k = "error" THEN "str(e)"
        ELSE IF k \in {"r2_mean", "r2_std"} THEN "None" ELSE "valor"]

\* lines 35-45: except Exception: every metric None, the message kept
CvExcept ==
    [k \in CvMetricas \cup {"error"} |-> IF k = "error" THEN "str(e)" ELSE "None"]

\* lines 56-60
ValTry == [k \in ValMetricas |-> "valor"]

\* lines 61-67: except ValueError
ValExcept == [k \in ValMetricas |-> "None"]

\* evaluacion.py lines 9-68: what the call returns, or that it raised
evaluar_modelo(a) ==
    LET cv == IF cross_val_score(a.n, a.cv_scores) = "raise"
              THEN CvExcept ELSE CvTry(a.cv_scores)
    IN IF a.X_val /\ a.y_val
       THEN CASE a.predict = "ok" ->
                   [called |-> TRUE, raised |-> FALSE,
                    resultados |-> [cv |-> cv, validation |-> ValTry]]
              [] a.predict = "ValueError" ->
                   [called |-> TRUE, raised |-> FALSE,
                    resultados |-> [cv |-> cv, validation |-> ValExcept]]
              [] OTHER ->
                   [called |-> TRUE, raised |-> TRUE, resultados |-> NoResultados]
       ELSE [called |-> TRUE, raised |-> FALSE, resultados |-> [cv |-> cv]]

\* incremental.py line 120: evaluar_modelo(modelo_final, X_eval, y_eval), no
\* validation set; what the run keeps of it is whether cv has values
EvaluarFinal(n) ==
    {IF evaluar_modelo([n |-> n, cv_scores |-> o, X_val |-> FALSE,
                        y_val |-> FALSE, predict |-> "ok"]).resultados.cv.r2_mean
           = "None"
     THEN "cv_unavailable" ELSE "cv" : o \in CvOutcomes}

\* lines 119-122: select the final model, evaluate it on the evaluation rows
Evaluate ==
    /\ pc = "finalize"
    /\ modelo_final' = Seleccion
    /\ resultados' \in EvaluarFinal(Cardinality(indices_eval))
    /\ pc' = "write"
    /\ UNCHANGED <<nX, nY, batch_size, n_epochs, modelo, mejor_modelo,
                   mejor_score, indices, indices_eval, epoch, start_idx, score,
                   returned, error, artifacts, hist>>
    /\ UNCHANGED <<main_vars, aux_vars>>

\* variant of the handler: the failure leaves the function
ReportError_reraise(h) ==
    /\ Raise("ReportError")
    /\ hist' = [h EXCEPT !.report_failed = TRUE]

\* line 130-131: except Exception: log the error
ReportError(h) ==
    /\ pc' = "return"
    /\ error' = error
    /\ hist' = [h EXCEPT !.report_failed = TRUE]

\* lines 123-125: write resultados_modelo_incremental.json
WriteMetrics ==
    /\ pc = "write"
    /\ \/ /\ artifacts' = artifacts \cup {"resultados_modelo_incremental.json"}
          /\ pc' = "report"
          /\ error' = error
          /\ hist' = hist
       \/ /\ artifacts' = artifacts
          /\ ReportError(hist)
    /\ UNCHANGED <<nX, nY, batch_size, n_epochs, modelo, mejor_modelo,
                   mejor_score, indices, indices_eval, epoch, start_idx, score,
                   modelo_final, returned, resultados>>
    /\ UNCHANGED <<main_vars, aux_vars>>

\* generar_informe(m, X_eval, y_eval): the pipeline after the call, whether
\* the call returned ("ok") or raised ("raise"), and whether it refitted m
generar_informe(m) ==
    LET refit == IF ImputerUnfitted(m)
                 THEN {<<FitOk(indices_eval, r), TRUE>> : r \in Scores}
                      \cup {<<c, FALSE>> : c \in CloneFitRaised}
                 ELSE {<<m, TRUE>>}
    IN {<<f[1], "ok", ImputerUnfitted(m)>> :
            f \in {g \in refit : g[2] /\ CanPredict(g[1])}}
       \cup {<<f[1], "raise", ImputerUnfitted(m) /\ f[2]>> : f \in refit}

\* line 128: the visual report; a failure is re-raised by generar_informe and
\* caught at line 130
Report ==
    /\ pc = "report"
    /\ \E out \in generar_informe(IF modelo_final = "mejor_modelo"
                                  THEN mejor_modelo ELSE modelo) :
         /\ IF modelo_final = "mejor_modelo"
            THEN mejor_modelo' = out[1] /\ modelo' = modelo
            ELSE modelo' = out[1] /\ mejor_modelo' = mejor_modelo
         /\ IF out[2] = "ok"
            THEN /\ artifacts' = artifacts \cup {"informe_modelo.html"}
                 /\ pc' = "return"
                 /\ error' = error
                 /\ hist' = [hist EXCEPT !.refit_in_report = out[3]]
            ELSE /\ artifacts' = artifacts
                 /\ ReportError([hist EXCEPT !.refit_in_report = out[3]])
    /\ UNCHANGED <<nX, nY, batch_size, n_epochs, mejor_score, indices,
                   indices_eval, epoch, start_idx, score, modelo_final,
                   returned, resultados>>
    /\ UNCHANGED <<main_vars, aux_vars>>

\* line 133: return mejor_modelo if mejor_modelo is not None else modelo
Return ==
    /\ pc = "return"
    /\ returned' = Seleccion
    /\ pc' = "Done"
    /\ UNCHANGED <<nX, nY, batch_size, n_epochs, modelo, mejor_modelo,
                   mejor_score, indices, indices_eval, epoch, start_idx, score,
                   modelo_final, error, resultados, artifacts, hist>>
    /\ UNCHANGED <<main_vars, aux_vars>>

Next ==
    \/ WarmStart
    \/ DrawHoldout
    \/ EpochStart
    \/ BatchStart
    \/ BatchFit
    \/ BatchScore
    \/ BatchUpdate
    \/ Evaluate
    \/ WriteMetrics
    \/ Report
    \/ Return

Spec == Init /\ [][Next]_vars

\* ------------------------------------------ the engine called twice
\* the first of two calls: its model argument is remembered
RerunInit ==
    /\ EngineInit
    /\ MainIdle
    /\ anterior = [NoCall EXCEPT !.llamada = 1, !.modelo = modelo]
    /\ EvalIdle
    /\ SelIdle
    /\ AddonIdle
    /\ ImpIdle

\* the caller calls entrenar_por_lotes again with the same X, y, batch_size
\* and n_epochs and a model equal to the first call's; the draws of lines 71,
\* 80 and 87 come from NumPy's global generator, which no line seeds
Rerun ==
    /\ pc = "Done"
    /\ anterior.llamada = 1
    /\ anterior' = [anterior EXCEPT !.llamada = 2, !.indices = indices,
                                    !.indices_eval = indices_eval]
    /\ pc' = "start"
    /\ modelo' = anterior.modelo
    /\ mejor_modelo' = NoModel
    /\ mejor_score' = NegInf
    /\ indices' = <<>>
    /\ indices_eval' = {}
    /\ epoch' = 0
    /\ start_idx' = 0
    /\ score' = NegInf
    /\ modelo_final' = "none"
    /\ returned' = "none"
    /\ resultados' = "none"
    /\ hist' = HistInit
    /\ UNCHANGED <<nX, nY, batch_size, n_epochs, error, artifacts>>
    /\ UNCHANGED <<main_vars, eval_vars, sel_vars, addon_vars, imp_vars>>

RerunNext ==
    \/ Next
    \/ Rerun

RerunSpec == RerunInit /\ [][RerunNext]_vars

\* -------------------------------------------- evaluar_modelo on its own
\* the arguments of one call: the number of samples of X, whether X_val and
\* y_val are given, and how the library calls end
EvalArgs ==
    [n : 0..MaxMuestras, cv_scores : CvOutcomes, X_val : BOOLEAN,
     y_val : BOOLEAN, predict : PredictOutcomes]

EvalInit ==
    /\ EngineIdle
    /\ MainIdle
    /\ anterior = NoCall
    /\ SelIdle
    /\ AddonIdle
    /\ ImpIdle
    /\ ev_args \in EvalArgs
    /\ ev_result = NotCalled

\* resultados = evaluar_modelo(modelo, X, y, X_val, y_val)
EvaluarModelo ==
    /\ ~ev_result.called
    /\ ev_result' = evaluar_modelo(ev_args)
    /\ ev_args' = ev_args
    /\ UNCHANGED <<engine_vars, main_vars, anterior, sel_vars, addon_vars,
                   imp_vars>>

EvalNext ==
    \/ EvaluarModelo

EvalSpec == EvalInit /\ [][EvalNext]_vars

\* ------------------------------------------------- training script
\* column names of the data (metricas_importantes of the column selection)
Names == {"sessions", "activeUsers", "engagementRate"}

\* ------------------------------- seleccionar_columnas_entrenamiento
\* numeric columns a CSV can have, and target names a caller can request
\* (eventCount stands for a name no CSV of the model has)
Columnas == Names \cup {"users", "ecommercePurchases", "bounceRate"}

Pedibles == {"sessions", "activeUsers", "bounceRate", "eventCount"}

\* sequences over S of length at most n
SeqUpTo(S, n) == UNION {[1..k -> S] : k \in 0..n}

\* addon train_column.py lines 77-81: logical name -> physical names, in the
\* order of the dictionary
mapeo_columnas ==
    [engagementRate |-> <<"engagementRate">>,
     sessions |-> <<"sessions">>,
     activeUsers |-> <<"activeUsers", "users">>]

mapeo_orden == <<"engagementRate", "sessions", "activeUsers">>

\* lines 95-103: the physical column of a requested name, "" if none
mapeo_final(col, columns) ==
    IF col \in columns THEN col
    ELSE IF col \in DOMAIN mapeo_columnas
         THEN LET alts == mapeo_columnas[col]
                  hits == {i \in DOMAIN alts : alts[i] \in columns}
              IN IF hits = {} THEN ""
                 ELSE alts[CHOOSE i \in hits : \A j \in hits : i <= j]
         ELSE ""

\* addon lines 14-71: the columns of X (every column taken as numeric):
\* important metrics that are not requested targets, and sessions_per_user
SeleccionarX_addon(a) ==
    ((a.columns \cap Names) \ Range(a.columnas_objetivo))
    \cup (IF {"sessions", "activeUsers"} \subseteq a.columns
          THEN {"sessions_per_user"} ELSE {})

\* addon train_column.py lines 9-112
seleccionar_addon(a) ==
    LET InFrame(c) == c \in a.columns
        Resolves(c) == mapeo_final(c, a.columns) # ""
        columnas_disponibles ==
            IF a.columnas_objetivo = <<>>
            THEN SelectSeq(mapeo_orden, InFrame)
            ELSE SelectSeq(a.columnas_objetivo, Resolves)
    IN IF columnas_disponibles = <<>>
       THEN [called |-> TRUE, raised |-> "ValueError", X |-> {}, y |-> <<>>,
             columnas |-> <<>>]
       ELSE [called |-> TRUE, raised |-> "",
             X |-> SeleccionarX_addon(a),
             y |-> [i \in DOMAIN columnas_disponibles |->
                      mapeo_final(columnas_disponibles[i], a.columns)],
             columnas |-> columnas_disponibles]

\* utils/train_column.py lines 5-60 (every column taken as numeric; the ratio
\* columns built from pairs of columns of X are not listed)
seleccionar_utils(a) ==
    LET X == a.columns \ Range(a.columnas_objetivo)
    IN IF a.columnas_objetivo = <<>>
       THEN IF "ecommercePurchases" \in a.columns
            THEN [called |-> TRUE, raised |-> "", X |-> X,
                  y |-> <<"ecommercePurchases">>, columnas |-> <<"purchased">>]
            ELSE [called |-> TRUE, raised |-> "", X |-> X, y |-> <<>>,
                  columnas |-> <<>>]
       ELSE IF Range(a.columnas_objetivo) \subseteq a.columns
            THEN [called |-> TRUE, raised |-> "", X |-> X,
                  y |-> a.columnas_objetivo, columnas |-> a.columnas_objetivo]
            ELSE [called |-> TRUE, raised |-> "KeyError", X |-> {}, y |-> <<>>,
                  columnas |-> <<>>]

seleccionar_columnas_entrenamiento(a) ==
    IF a.version = "addon" THEN seleccionar_addon(a) ELSE seleccionar_utils(a)

SelArgs ==
    [version : {"addon", "utils"}, columns : SUBSET Columnas,
     columnas_objetivo : SeqUpTo(Pedibles, MaxObjetivos)]

SelInit ==
    /\ EngineIdle
    /\ MainIdle
    /\ anterior = NoCall
    /\ EvalIdle
    /\ AddonIdle
    /\ ImpIdle
    /\ sel_args \in SelArgs
    /\ sel_result = NotSelected

\* X, y, columnas = seleccionar_columnas_entrenamiento(df, columnas_objetivo, args)
SeleccionarColumnas ==
    /\ ~sel_result.called
    /\ sel_result' = seleccionar_columnas_entrenamiento(sel_args)
    /\ sel_args' = sel_args
    /\ UNCHANGED <<engine_vars, main_vars, anterior, eval_vars, addon_vars,
                   imp_vars>>

SelNext ==
    \/ SeleccionarColumnas

SelSpec == SelInit /\ [][SelNext]_vars

\* bundles found at ruta_modelo before the first run: none, one written by an
\* earlier run of this script (a Pipeline) or one holding another estimator
\* exposing n_outputs_; the script stores its targets as 'columnas'
InitBundles ==
    {NoBundle} \cup
    {b \in [exists : {TRUE}, kind : {"Pipeline", "Estimator"},
            n_out : 1..Cardinality(Names), columnas : SUBSET Names] :
        b.kind = "Pipeline" =>
            b.columnas # {} /\ b.n_out = Cardinality(b.columnas)}

\* what the column selection can return: the resolved targets, and an X that
\* holds no target column
Selections ==
    {sel \in [targets : SUBSET Names \ {{}}, xcols : SUBSET Names] :
        sel.xcols \cap sel.targets = {}}

\* crear_pipeline_multioutput(): an untrained Pipeline
crear_pipeline_multioutput == [origin |-> "fresh", kind |-> "Pipeline", n_out |-> 0]

\* modelo_dict['modelo']
LoadedModel(b) == [origin |-> "loaded", kind |-> b.kind, n_out |-> b.n_out]

\* y.shape[1]
y_cols == Cardinality(columnas_procesadas)

\* hasattr(modelo, 'n_outputs_'): a sklearn Pipeline has no such attribute,
\* fitted or not; a fitted tree ensemble has
HasNOutputs(m) == m.kind = "Estimator" /\ m.n_out > 0

\* what an earlier run can have left in resultados_modelo.json
InitResultados ==
    {NoResultados, [cv |-> CvTry("ok"), validation |-> ValTry]}

\* lines 32-57: arguments parsed, data loaded, columns selected
InitMain ==
    /\ EngineIdle
    /\ main_pc = "prepare"
    /\ incremental \in BOOLEAN
    /\ bundle \in InitBundles
    /\ \E sel \in Selections :
         /\ columnas_procesadas = sel.targets
         /\ Xcols = sel.xcols
    /\ m_modelo = NoPipeline
    /\ drift_log = NoDrift
    /\ main_error = ""
    /\ runs = 1
    /\ m_resultados = NoResultados
    /\ resultados_json \in InitResultados
    /\ AuxIdle

\* an exception leaves main: the script ends with a traceback
Crash(e) ==
    /\ main_pc' = "crashed"
    /\ main_error' = e

\* lines 59-72: drop rows with a missing target, split train / validation
\* (train_test_split raises ValueError when a part would be empty)
Prepare ==
    /\ main_pc = "prepare"
    /\ \/ main_pc' = "load" /\ main_error' = main_error
       \/ Crash("ValueError")
    /\ UNCHANGED <<incremental, bundle, columnas_procesadas, Xcols, m_modelo,
                   drift_log, runs>>
    /\ UNCHANGED <<m_resultados, resultados_json>>
    /\ UNCHANGED <<engine_vars, aux_vars>>

\* lines 74-79 and 94-96 (incremental), 107-109 and 121-123 (full)
Load ==
    /\ main_pc = "load"
    /\ IF bundle.exists
       THEN /\ m_modelo' = IF incremental THEN LoadedModel(bundle) ELSE m_modelo
            /\ main_pc' = IF incremental THEN "arity" ELSE "columns_full"
       ELSE /\ m_modelo' = crear_pipeline_multioutput
            /\ main_pc' = IF incremental THEN "train" ELSE "fit_full"
    /\ UNCHANGED <<incremental, bundle, columnas_procesadas, Xcols, drift_log,
                   main_error, runs>>
    /\ UNCHANGED <<m_resultados, resultados_json>>
    /\ UNCHANGED <<engine_vars, aux_vars>>

\* line 82: the loaded model cannot predict the current number of targets
ArityMismatch(m) == HasNOutputs(m) /\ m.n_out # y_cols

\* lines 81-86: retrain from scratch when the output arity differs
Arity ==
    /\ main_pc = "arity"
    /\ m_modelo' = IF ArityMismatch(m_modelo)
                   THEN crear_pipeline_multioutput ELSE m_modelo
    /\ main_pc' = "columns"
    /\ UNCHANGED <<incremental, bundle, columnas_procesadas, Xcols, drift_log,
                   main_error, runs>>
    /\ UNCHANGED <<m_resultados, resultados_json>>
    /\ UNCHANGED <<engine_vars, aux_vars>>

\* lines 89 and 112: columnas_modelo and set(columnas_modelo) != set(columnas_procesadas)
FeatureDrift(cm, cp) == cm # {} /\ cm # cp

\* variant of the report: the new names taken from the columns of X
DriftReport_X(cm, cp) ==
    [faltantes |-> cm \ cp, nuevas |-> Xcols \ cm, anteriores |-> 0,
     actuales |-> 0, logged |-> TRUE]

\* lines 91-92: the two differences that are printed
DriftReport(cm, cp) ==
    [faltantes |-> cm \ cp, nuevas |-> cp \ cm, anteriores |-> 0,
     actuales |-> 0, logged |-> TRUE]

\* lines 113-115: the full retraining prints the two lengths only
DriftCounts(cm, cp) ==
    [faltantes |-> {}, nuevas |-> {}, anteriores |-> Cardinality(cm),
     actuales |-> Cardinality(cp), logged |-> TRUE]

\* line 93: X[columnas_modelo] raises KeyError when a label is not a column of X
KeyErrorX(cm) == ~(cm \subseteq Xcols)

\* lines 88-93: warn about differing features, keep only the stored columns
Columns ==
    /\ main_pc = "columns"
    /\ LET columnas_modelo == bundle.columnas
       IN IF FeatureDrift(columnas_modelo, columnas_procesadas)
          THEN /\ drift_log' = DriftReport(columnas_modelo, columnas_procesadas)
               /\ IF KeyErrorX(columnas_modelo)
                  THEN /\ Crash("KeyError")
                       /\ Xcols' = Xcols
                  ELSE /\ Xcols' = columnas_modelo
                       /\ main_pc' = "train"
                       /\ main_error' = main_error
          ELSE /\ main_pc' = "train"
               /\ UNCHANGED <<drift_log, Xcols, main_error>>
    /\ UNCHANGED <<incremental, bundle, columnas_procesadas, m_modelo, runs>>
    /\ UNCHANGED <<m_resultados, resultados_json>>
    /\ UNCHANGED <<engine_vars, aux_vars>>

\* lines 97-103: imputar_valores_faltantes (X is a DataFrame: returned as it
\* is), then entrenar_por_lotes, which returns a pipeline fitted for the
\* columns of y or lets the exception of its warm start through
Train ==
    /\ main_pc = "train"
    /\ \/ /\ m_modelo' = [m_modelo EXCEPT !.n_out = y_cols]
          /\ main_pc' = "dump"
          /\ main_error' = main_error
       \/ /\ m_modelo' = m_modelo
          /\ Crash("FitError")
    /\ UNCHANGED <<incremental, bundle, columnas_procesadas, Xcols, drift_log,
                   runs>>
    /\ UNCHANGED <<m_resultados, resultados_json>>
    /\ UNCHANGED <<engine_vars, aux_vars>>

\* lines 105 and 142: joblib.dump({'modelo': modelo, 'columnas': columnas_procesadas})
Dumped == [exists |-> TRUE, kind |-> m_modelo.kind, n_out |-> m_modelo.n_out,
           columnas |-> columnas_procesadas]

\* lines 104-105
Dump ==
    /\ main_pc = "dump"
    /\ bundle' = Dumped
    /\ main_pc' = "exit"
    /\ UNCHANGED <<incremental, columnas_procesadas, Xcols, m_modelo,
                   drift_log, main_error, runs>>
    /\ UNCHANGED <<m_resultados, resultados_json>>
    /\ UNCHANGED <<engine_vars, aux_vars>>

\* lines 110-120: changed features force a new pipeline, else the stored one
ColumnsFull ==
    /\ main_pc = "columns_full"
    /\ LET columnas_modelo == bundle.columnas
       IN IF FeatureDrift(columnas_modelo, columnas_procesadas)
          THEN /\ drift_log' = DriftCounts(columnas_modelo, columnas_procesadas)
               /\ m_modelo' = crear_pipeline_multioutput
          ELSE /\ drift_log' = drift_log
               /\ m_modelo' = LoadedModel(bundle)
    /\ main_pc' = "fit_full"
    /\ UNCHANGED <<incremental, bundle, columnas_procesadas, Xcols,
                   main_error, runs>>
    /\ UNCHANGED <<m_resultados, resultados_json>>
    /\ UNCHANGED <<engine_vars, aux_vars>>

\* lines 125-127: modelo.fit(X_train, y_train)
FitFull ==
    /\ main_pc = "fit_full"
    /\ \/ /\ m_modelo' = [m_modelo EXCEPT !.n_out = y_cols]
          /\ main_pc' = "check_full"
          /\ main_error' = main_error
       \/ /\ m_modelo' = m_modelo
          /\ Crash("FitError")
    /\ UNCHANGED <<incremental, bundle, columnas_procesadas, Xcols, drift_log,
                   runs>>
    /\ UNCHANGED <<m_resultados, resultados_json>>
    /\ UNCHANGED <<engine_vars, aux_vars>>

\* lines 129-135: return without saving when the arity differs
CheckFull ==
    /\ main_pc = "check_full"
    /\ main_pc' = IF ArityMismatch(m_modelo) THEN "exit" ELSE "eval_full"
    /\ UNCHANGED <<incremental, bundle, columnas_procesadas, Xcols, m_modelo,
                   drift_log, main_error, runs>>
    /\ UNCHANGED <<m_resultados, resultados_json>>
    /\ UNCHANGED <<engine_vars, aux_vars>>

\* line 138: evaluar_modelo(modelo, X_train, y_train, X_val, y_val); too few
\* training samples is one of the ways its cross-validation raises
EvalFullArgs ==
    {a \in EvalArgs : a.n \in {CV_FOLDS - 1, CV_FOLDS} /\ a.X_val /\ a.y_val}

\* lines 137-139: evaluar_modelo, generar_informe (which re-raises its failures)
EvalFull ==
    /\ main_pc = "eval_full"
    /\ \E a \in EvalFullArgs :
         LET r == evaluar_modelo(a)
         IN IF r.raised
            THEN /\ Crash("EvalError")
                 /\ m_resultados' = m_resultados
            ELSE /\ m_resultados' = r.resultados
                 /\ \/ main_pc' = "dump_full" /\ main_error' = main_error
                    \/ Crash("ReportError")
    /\ resultados_json' = resultados_json
    /\ UNCHANGED <<incremental, bundle, columnas_procesadas, Xcols, m_modelo,
                   drift_log, runs>>
    /\ UNCHANGED <<engine_vars, aux_vars>>

\* lines 141-147: the bundle, then resultados_modelo.json
DumpFull ==
    /\ main_pc = "dump_full"
    /\ bundle' = Dumped
    /\ resultados_json' = m_resultados
    /\ m_resultados' = m_resultados
    /\ main_pc' = "exit"
    /\ UNCHANGED <<incremental, columnas_procesadas, Xcols, m_modelo,
                   drift_log, main_error, runs>>
    /\ UNCHANGED <<engine_vars, aux_vars>>

\* the script is run again on new data; the bundle file stays where it is
NewRun ==
    /\ main_pc \in {"exit", "crashed"}
    /\ runs < MaxRuns
    /\ runs' = runs + 1
    /\ main_pc' = "prepare"
    /\ incremental' \in BOOLEAN
    /\ \E sel \in Selections :
         /\ columnas_procesadas' = sel.targets
         /\ Xcols' = sel.xcols
    /\ m_modelo' = NoPipeline
    /\ drift_log' = NoDrift
    /\ main_error' = ""
    /\ bundle' = bundle
    /\ m_resultados' = NoResultados
    /\ resultados_json' = resultados_json
    /\ UNCHANGED <<engine_vars, aux_vars>>

MainNext ==
    \/ Prepare
    \/ Load
    \/ Arity
    \/ Columns
    \/ Train
    \/ Dump
    \/ ColumnsFull
    \/ FitFull
    \/ CheckFull
    \/ EvalFull
    \/ DumpFull
    \/ NewRun

MainSpec == InitMain /\ [][MainNext]_vars

\* ------------------------------------------- handlers of the Odoo module
not_addon == <<engine_vars, anterior, eval_vars, sel_vars, imp_vars>>

Handlers == {"descargar", "verificar", "importar", "entrenar"}

\* a button is pressed on a record: the fields the handler reads, the model
\* and the metrics file an earlier training left in directorio_modelos
AccionInit ==
    /\ EngineIdle
    /\ anterior = NoCall
    /\ EvalIdle
    /\ SelIdle
    /\ main_pc = "off"
    /\ incremental = FALSE
    /\ bundle \in InitBundles
    /\ columnas_procesadas = {}
    /\ Xcols = {}
    /\ m_modelo = NoPipeline
    /\ drift_log = NoDrift
    /\ main_error = ""
    /\ runs = 0
    /\ m_resultados = NoResultados
    /\ resultados_json \in InitResultados
    /\ a_name \in Handlers
    /\ a_pc = "inicio"
    /\ a_in \in [datos : BOOLEAN, seleccion : BOOLEAN, extension : BOOLEAN]
    /\ tmp = {}
    /\ a_exc = ""
    /\ a_raised = ""
    /\ estado = IF a_name = "entrenar" THEN "borrador" ELSE ""
    /\ returncode = 0
    /\ registro = NoRegistro
    /\ ImpIdle

\* ---- model_download.py, action_descargar_datos
\* self.write({'estado_actual': e, 'progreso': p})
Escribir(e, p) ==
    /\ estado' = e
    /\ registro' = [registro EXCEPT !.progreso = p]

\* lines 156-185: the two guards, then the first write and the credentials
\* file (mkstemp)
DescargarInicio ==
    /\ a_name = "descargar"
    /\ a_pc = "inicio"
    /\ IF ~a_in.seleccion \/ ~a_in.datos
       THEN /\ Escribir("Error", 0)
            /\ a_pc' = "fin"
            /\ UNCHANGED <<tmp, a_exc>>
       ELSE /\ Escribir("Preparando credenciales...", 10)
            /\ \/ /\ tmp' = tmp \cup {"cred.json"}
                  /\ a_pc' = "cliente"
                  /\ a_exc' = a_exc
               \/ /\ a_exc' = "Exception"
                  /\ a_pc' = "except"
                  /\ tmp' = tmp
    /\ UNCHANGED <<a_name, a_in, a_raised, returncode>>
    /\ UNCHANGED <<main_vars, not_addon>>

\* descargar_datos_predictivos.py lines 39-41: initialize_analytics_client
\* catches every failure and calls sys.exit(1), which raises SystemExit
FalloCliente == "SystemExit"

\* lines 186-194: write the credentials into the file, then
\* initialize_analytics_client
DescargarCliente ==
    /\ a_name = "descargar"
    /\ a_pc = "cliente"
    /\ \/ /\ UNCHANGED <<estado, registro>>
          /\ a_exc' = "Exception"
          /\ a_pc' = "finally_cred"
       \/ /\ Escribir("Iniciando conexión con GA4...", 20)
          /\ \/ /\ a_exc' = a_exc
                /\ a_pc' = "descarga"
             \/ /\ a_exc' = FalloCliente
                /\ a_pc' = "finally_cred"
    /\ UNCHANGED <<a_name, a_in, tmp, a_raised, returncode>>
    /\ UNCHANGED <<main_vars, not_addon>>

\* lines 196-233: the paginated download (an empty result is raised as
\* ValueError), the cleaning of the data, then the CSV file (mkstemp)
DescargarDatos ==
    /\ a_name = "descargar"
    /\ a_pc = "descarga"
    /\ \/ /\ Escribir("Descargando datos...", 40)
          /\ a_exc' \in {"Exception", "ValueError"}
          /\ a_pc' = "finally_cred"
          /\ tmp' = tmp
       \/ /\ Escribir("Procesando datos...", 60)
          /\ a_exc' = "Exception"
          /\ a_pc' = "finally_cred"
          /\ tmp' = tmp
       \/ /\ Escribir("Guardando resultados...", 80)
          /\ a_exc' = "Exception"
          /\ a_pc' = "finally_cred"
          /\ tmp' = tmp
       \/ /\ Escribir("Guardando resultados...", 80)
          /\ tmp' = tmp \cup {"datos.csv"}
          /\ a_pc' = "guardar"
          /\ a_exc' = a_exc
    /\ UNCHANGED <<a_name, a_in, a_raised, returncode>>
    /\ UNCHANGED <<main_vars, not_addon>>

\* lines 234-254: save and read the CSV, store it with Completado and 100;
\* finally unlink
DescargarGuardar ==
    /\ a_name = "descargar"
    /\ a_pc = "guardar"
    /\ \/ /\ estado' = "Completado"
          /\ registro' = [progreso |-> 100, archivo |-> TRUE]
          /\ a_exc' = a_exc
       \/ /\ UNCHANGED <<estado, registro>>
          /\ a_exc' = "Exception"
    /\ tmp' = tmp \ {"datos.csv"}
    /\ a_pc' = "finally_cred"
    /\ UNCHANGED <<a_name, a_in, a_raised, returncode>>
    /\ UNCHANGED <<main_vars, not_addon>>

\* lines 255-258: finally: os.unlink(temp_cred_path); except Exception lets
\* SystemExit through
DescargarFinally ==
    /\ a_name = "descargar"
    /\ a_pc = "finally_cred"
    /\ tmp' = tmp \ {"cred.json"}
    /\ IF a_exc = "SystemExit"
       THEN /\ a_raised' = a_exc
            /\ a_exc' = ""
            /\ a_pc' = "fin"
       ELSE /\ a_pc' = IF a_exc # "" THEN "except" ELSE "fin"
            /\ UNCHANGED <<a_exc, a_raised>>
    /\ UNCHANGED <<a_name, a_in, estado, returncode, registro>>
    /\ UNCHANGED <<main_vars, not_addon>>

\* lines 258-263: except Exception: write Error and 0; nothing is raised
DescargarExcept ==
    /\ a_name = "descargar"
    /\ a_pc = "except"
    /\ Escribir("Error", 0)
    /\ a_exc' = ""
    /\ a_pc' = "fin"
    /\ UNCHANGED <<a_name, a_in, tmp, a_raised, returncode>>
    /\ UNCHANGED <<main_vars, not_addon>>

\* ---- model_credential.py, verificar_permisos_ga4
\* lines 24-33: the guard, b64decode, mkstemp
VerificarInicio ==
    /\ a_name = "verificar"
    /\ a_pc = "inicio"
    /\ IF ~a_in.datos
       THEN /\ estado' = "ERROR"
            /\ a_pc' = "fin"
            /\ tmp' = tmp
       ELSE \/ /\ tmp' = tmp \cup {"cred.json"}
               /\ a_pc' = "usar"
               /\ estado' = estado
            \/ /\ estado' = "ERROR"
               /\ a_pc' = "fin"
               /\ tmp' = tmp
    /\ UNCHANGED <<a_name, a_in, a_exc, a_raised, returncode, registro>>
    /\ UNCHANGED <<main_vars, not_addon>>

\* lines 34-71: write and check the credentials, list the properties; the
\* finally unlinks the file on the early returns and on an exception alike
VerificarUsar ==
    /\ a_name = "verificar"
    /\ a_pc = "usar"
    /\ estado' \in {"ERROR", "cuentas y propiedades"}
    /\ tmp' = tmp \ {"cred.json"}
    /\ a_pc' = "fin"
    /\ UNCHANGED <<a_name, a_in, a_exc, a_raised, returncode, registro>>
    /\ UNCHANGED <<main_vars, not_addon>>

\* ---- import_csv_wizard.py, action_importar
\* lines 25-45: the guards, b64decode, chardet, then the temporary file is
\* created and written; a failed write is caught at line 108, outside the
\* try / finally of lines 47-66
ImportarInicio ==
    /\ a_name = "importar"
    /\ a_pc = "inicio"
    /\ IF ~a_in.datos \/ ~a_in.extension
       THEN /\ a_pc' = "fin"
            /\ tmp' = tmp
       ELSE \/ /\ a_pc' = "fin"
               /\ tmp' = tmp
            \/ /\ tmp' = tmp \cup {"import.csv"}
               /\ a_pc' \in {"leer", "fin"}
    /\ estado' = estado
    /\ UNCHANGED <<a_name, a_in, a_exc, a_raised, returncode, registro>>
    /\ UNCHANGED <<main_vars, not_addon>>

\* lines 47-106: read the CSV (finally: unlink), clean it, write the download
\* record; every failure ends in _show_error
ImportarLeer ==
    /\ a_name = "importar"
    /\ a_pc = "leer"
    /\ tmp' = tmp \ {"import.csv"}
    /\ \/ UNCHANGED <<estado, registro>>
       \/ /\ estado' = "Completado"
          /\ registro' = [progreso |-> 100, archivo |-> TRUE]
    /\ a_pc' = "fin"
    /\ UNCHANGED <<a_name, a_in, a_exc, a_raised, returncode>>
    /\ UNCHANGED <<main_vars, not_addon>>

\* ---- model_trainer.py, action_entrenar_modelo
\* lines 141-162: the guard (UserError before the try), TemporaryDirectory,
\* the CSV written into it, makedirs, estado = entrenando
EntrenarInicio ==
    /\ a_name = "entrenar"
    /\ a_pc = "inicio"
    /\ IF ~a_in.datos
       THEN /\ a_raised' = "UserError"
            /\ a_pc' = "fin"
            /\ UNCHANGED <<tmp, a_exc, estado, registro>>
       ELSE /\ tmp' = tmp \cup {"temp_dir"}
            /\ a_raised' = a_raised
            /\ \/ /\ Escribir("entrenando", 0)
                  /\ a_pc' = "metricas"
                  /\ a_exc' = a_exc
               \/ /\ UNCHANGED <<estado, registro>>
                  /\ a_exc' = "Exception"
                  /\ a_pc' = "exit_with"
    /\ UNCHANGED <<a_name, a_in, returncode>>
    /\ UNCHANGED <<main_vars, not_addon>>

\* line 169, _definir_metricas_objetivo (lines 83-125): the CSV is written to
\* a NamedTemporaryFile(delete=False) that no line removes; a missing metric or
\* a failed read is raised as UserError
EntrenarMetricas ==
    /\ a_name = "entrenar"
    /\ a_pc = "metricas"
    /\ \/ /\ tmp' = tmp \cup {"metricas.csv"}
          /\ \/ a_pc' = "popen" /\ a_exc' = a_exc
             \/ a_pc' = "exit_with" /\ a_exc' = "UserError"
       \/ /\ tmp' = tmp
          /\ a_pc' = "exit_with"
          /\ a_exc' = "UserError"
    /\ UNCHANGED <<a_name, a_in, a_raised, estado, returncode, registro>>
    /\ UNCHANGED <<main_vars, not_addon>>

\* lines 171-185: python3 entrenar_modelo.py --archivos ... --objetivos ...
\* --salida directorio_modelos --modelo-salida modelo_final.joblib
EntrenarPopen ==
    /\ a_name = "entrenar"
    /\ a_pc = "popen"
    /\ \/ /\ a_pc' = "communicate"
          /\ a_exc' = a_exc
          /\ main_pc' = "prepare"
          /\ \E sel \in Selections :
               /\ columnas_procesadas' = sel.targets
               /\ Xcols' = sel.xcols
          /\ runs' = runs + 1
       \/ /\ a_pc' = "exit_with"
          /\ a_exc' = "Exception"
          /\ UNCHANGED <<main_pc, columnas_procesadas, Xcols, runs>>
    /\ UNCHANGED <<incremental, bundle, m_modelo, drift_log, main_error,
                   m_resultados, resultados_json>>
    /\ UNCHANGED <<a_name, a_in, tmp, a_raised, estado, returncode, registro>>
    /\ UNCHANGED not_addon

\* variant of the exit status: only a failed split is reported
ExitStatus_parcial ==
    IF main_pc = "crashed" /\ main_error = "ValueError" THEN 1 ELSE 0

\* the exit status of the script: 1 after an uncaught exception, 0 after main
\* returned
ExitStatus == IF main_pc = "crashed" THEN 1 ELSE 0

\* lines 187-190: communicate(), a non-zero returncode is raised
EntrenarCommunicate ==
    /\ a_name = "entrenar"
    /\ a_pc = "communicate"
    /\ main_pc \in {"exit", "crashed"}
    /\ returncode' = ExitStatus
    /\ IF returncode' # 0
       THEN a_exc' = "Exception" /\ a_pc' = "exit_with"
       ELSE a_exc' = a_exc /\ a_pc' = "resumen"
    /\ UNCHANGED <<a_name, a_in, tmp, a_raised, estado, registro>>
    /\ UNCHANGED <<main_vars, not_addon>>

\* line 210: f"{v:.4f}" raises TypeError for None and ValueError for a string
FormatoFalla(res) ==
    \E metrica \in DOMAIN res :
        \E k \in DOMAIN res[metrica] : res[metrica][k] \notin {"valor", "nan"}

\* lines 192-216: zip directorio_modelos, read and format
\* resultados_modelo.json when it exists
EntrenarResumen ==
    /\ a_name = "entrenar"
    /\ a_pc = "resumen"
    /\ \/ /\ ~FormatoFalla(resultados_json)
          /\ a_pc' = "completado"
          /\ a_exc' = a_exc
       \/ /\ FormatoFalla(resultados_json)
          /\ a_pc' = "exit_with"
          /\ a_exc' = "TypeError"
       \/ /\ a_pc' = "exit_with"
          /\ a_exc' = "Exception"
    /\ UNCHANGED <<a_name, a_in, tmp, a_raised, estado, returncode, registro>>
    /\ UNCHANGED <<main_vars, not_addon>>

\* lines 218-229: estado = completado, the zip stored, the report opened
EntrenarCompletado ==
    /\ a_name = "entrenar"
    /\ a_pc = "completado"
    /\ estado' = "completado"
    /\ registro' = [progreso |-> 100, archivo |-> TRUE]
    /\ a_pc' = "exit_with"
    /\ UNCHANGED <<a_name, a_in, tmp, a_exc, a_raised, returncode>>
    /\ UNCHANGED <<main_vars, not_addon>>

\* line 148: leaving the with block removes the temporary directory
EntrenarExitWith ==
    /\ a_name = "entrenar"
    /\ a_pc = "exit_with"
    /\ tmp' = tmp \ {"temp_dir"}
    /\ a_pc' = IF a_exc # "" THEN "except" ELSE "fin"
    /\ UNCHANGED <<a_name, a_in, a_exc, a_raised, estado, returncode, registro>>
    /\ UNCHANGED <<main_vars, not_addon>>

\* variant of the handler: the exception is re-raised, estado is left as it is
EntrenarExcept_sin_estado ==
    /\ a_name = "entrenar"
    /\ a_pc = "except"
    /\ a_exc' = ""
    /\ a_raised' = a_exc
    /\ a_pc' = "fin"
    /\ UNCHANGED <<a_name, a_in, tmp, returncode, estado, registro>>
    /\ UNCHANGED <<main_vars, not_addon>>

\* lines 231-236: except Exception: estado = error, raise UserError(str(e))
EntrenarExcept ==
    /\ a_name = "entrenar"
    /\ a_pc = "except"
    /\ estado' = "error"
    /\ a_exc' = ""
    /\ a_raised' = a_exc
    /\ a_pc' = "fin"
    /\ UNCHANGED <<a_name, a_in, tmp, returncode, registro>>
    /\ UNCHANGED <<main_vars, not_addon>>

AccionNext ==
    \/ DescargarInicio
    \/ DescargarCliente
    \/ DescargarDatos
    \/ DescargarGuardar
    \/ DescargarFinally
    \/ DescargarExcept
    \/ VerificarInicio
    \/ VerificarUsar
    \/ ImportarInicio
    \/ ImportarLeer
    \/ EntrenarInicio
    \/ EntrenarMetricas
    \/ EntrenarPopen
    \/ Prepare
    \/ Load
    \/ ColumnsFull
    \/ FitFull
    \/ CheckFull
    \/ EvalFull
    \/ DumpFull
    \/ EntrenarCommunicate
    \/ EntrenarResumen
    \/ EntrenarCompletado
    \/ EntrenarExitWith
    \/ EntrenarExcept

AccionSpec == AccionInit /\ [][AccionNext]_vars

\* ------------------------- the feature matrix before the warm-start fit
\* a cell of X holds a number or is missing (NaN)
Celdas == {"valor", "nan"}

\* the X that reaches line 97 of main, or that another caller passes: a
\* DataFrame or an ndarray of 1..MaxRows rows and 1..MaxCols columns
Matrices ==
    UNION {[tipo : {"DataFrame", "ndarray"},
            columnas : [1..c -> [1..f -> Celdas]]] :
           <<f, c>> \in (1..MaxRows) \X (1..MaxCols)}

\* SimpleImputer(strategy='mean').fit_transform: a column with no observed
\* value is dropped, a missing cell of another column gets the column's mean
TieneValor(col) == \E i \in DOMAIN col : col[i] = "valor"

fit_transform(columnas) ==
    LET quedan == SelectSeq(columnas, TieneValor)
    IN [j \in DOMAIN quedan |->
          [i \in DOMAIN quedan[j] |->
             IF quedan[j][i] = "nan" THEN "media" ELSE quedan[j][i]]]

\* incremental.py lines 17-22
imputar_valores_faltantes(X) ==
    IF X.tipo = "ndarray"
    THEN [tipo |-> "ndarray", columnas |-> fit_transform(X.columnas)]
    ELSE X

ImpInit ==
    /\ EngineIdle
    /\ MainIdle
    /\ anterior = NoCall
    /\ EvalIdle
    /\ SelIdle
    /\ AddonIdle
    /\ imp_pc = "main"
    /\ imp_X \in Matrices

not_imp == <<engine_vars, main_vars, anterior, eval_vars, sel_vars, addon_vars>>

\* entrenar_modelo.py line 98: X = imputar_valores_faltantes(X)
ImputarEnMain ==
    /\ imp_pc = "main"
    /\ imp_X' = imputar_valores_faltantes(imp_X)
    /\ imp_pc' = "engine"
    /\ UNCHANGED not_imp

\* incremental.py line 60: X = X.values if isinstance(X, pd.DataFrame) else X
ConvertirValues ==
    /\ imp_pc = "engine"
    /\ imp_X' = IF imp_X.tipo = "DataFrame"
                THEN [imp_X EXCEPT !.tipo = "ndarray"] ELSE imp_X
    /\ imp_pc' = "warm"
    /\ UNCHANGED not_imp

\* lines 70-72: modelo.fit(X[indices_iniciales], y[indices_iniciales])
AjusteInicial ==
    /\ imp_pc = "warm"
    /\ imp_pc' = "fitted"
    /\ imp_X' = imp_X
    /\ UNCHANGED not_imp

ImpNext ==
    \/ ImputarEnMain
    \/ ConvertirValues
    \/ AjusteInicial

ImpSpec == ImpInit /\ [][ImpNext]_vars

\* ================================================================ claims
Terminal == pc \in {"Done", "Failed"}

InLoop == pc \in {"epoch", "batch", "fit", "score", "update"}

\* the object line 133 returned
ReturnedModel == IF returned = "mejor_modelo" THEN mejor_modelo ELSE modelo

\* a checkpoint was set during the run
CheckpointSet == hist.mejor_from # <<>>

\* steps the function can still take from the current position
Rank ==
    LET k == start_idx \div batch_size
        epoch_cost == 4 * NBatches + 2
        left == (n_epochs - epoch) * epoch_cost
    IN CASE pc = "start" -> 7 + (n_epochs + 1) * epoch_cost
         [] pc = "holdout" -> 6 + (n_epochs + 1) * epoch_cost
         [] pc = "epoch" -> 5 + left
         [] pc = "batch" -> 5 + left - (1 + 4 * k)
         [] pc = "fit" -> 5 + left - (2 + 4 * k)
         [] pc = "score" -> 5 + left - (3 + 4 * k)
         [] pc = "update" -> 5 + left - (4 + 4 * k)
         [] pc = "finalize" -> 4
         [] pc = "write" -> 3
         [] pc = "report" -> 2
         [] pc = "return" -> 1
         [] OTHER -> 0

C1_Domain == n_epochs >= 1 /\ batch_size >= 1 /\ batch_size <= nX

\* C1 as stated: for E >= 1 and 1 <= B <= n_samples every call ends by
\* returning a non-null model.
C1_Original == (C1_Domain /\ Terminal) => (pc = "Done" /\ returned # "none")

\* C1 as amended: for E >= 1 and 1 <= B <= n_samples every call terminates
\* (every step lowers a natural-number rank and a step is possible until the
\* function has ended); it ends by returning a non-null model, whatever batch
\* steps raised, unless the warm-start fit raised (before any batch was
\* fitted) or y has fewer rows than X and indexing it raised.
C1_Termina ==
    /\ [](C1_Domain =>
            /\ Rank >= 0
            /\ (~Terminal => ENABLED Next)
            /\ (pc = "Done" => returned # "none" /\ ReturnedModel.st # "none")
            /\ (pc = "Failed" =>
                  \/ error = "FitError" /\ hist.tried = 0
                  \/ error = "IndexError" /\ nY < nX))
    /\ [][C1_Domain => Rank' < Rank]_vars

C1_Witness ==
    /\ C1_Domain
    /\ pc = "Done"
    /\ hist.raised
    /\ returned = "modelo"
    /\ hist.tried = n_epochs * NBatches

\* C2: during the loop the retained checkpoint is the one cloned while
\* processing the first batch that reached the highest score computed so far;
\* mejor_score is that highest score at every point outside the update step;
\* the checkpoint changes only in an update step whose score is strictly
\* higher than mejor_score, and mejor_score never decreases.
C2_MejorCheckpoint ==
    /\ [](InLoop =>
            /\ mejor_score <= hist.max_seen
            /\ (pc # "update" => mejor_score = hist.max_seen)
            /\ (pc # "update" => hist.mejor_from = hist.best_batch)
            /\ (mejor_modelo.st # "none" <=> CheckpointSet))
    /\ [][InLoop =>
            /\ mejor_score' >= mejor_score
            /\ (mejor_modelo' # mejor_modelo \/ hist'.mejor_from # hist.mejor_from
                  => pc = "update" /\ score > mejor_score /\ mejor_score' = score)
         ]_vars

\* a later batch replaced the checkpoint of the first batch of the run
C2_Witness ==
    /\ pc = "batch"
    /\ ~hist.raised
    /\ CheckpointSet
    /\ hist.mejor_from # <<0, 0>>
    /\ mejor_modelo.st = "fit"

\* C3 as stated: the returned model's holdout R2 is at least the R2 the model
\* had right after the warm-start fit.
C3_Original ==
    (pc = "Done" /\ ReturnedModel.st = "fit" /\ ~hist.refit_in_report)
       => ReturnedModel.r2 >= hist.warm_r2

\* C3 as amended: mejor_score never decreases and when the function returns it
\* is at least the R2 of every batch refit it scored; a returned checkpoint
\* whose own refit completed has exactly that R2.  The warm-start model is
\* never scored and may have a higher R2.
C3_MejorScore ==
    /\ [](pc \in {"finalize", "write", "report", "return", "Done"} =>
            /\ mejor_score >= hist.max_seen
            /\ (mejor_modelo.st = "fit" /\ ~hist.refit_in_report
                  => mejor_modelo.r2 = mejor_score))
    /\ [][mejor_score' >= mejor_score]_vars

\* the returned checkpoint scores below the warm-start model
C3_Witness ==
    /\ pc = "Done"
    /\ returned = "mejor_modelo"
    /\ mejor_modelo.st = "fit"
    /\ ~hist.refit_in_report
    /\ mejor_modelo.r2 = mejor_score
    /\ mejor_modelo.r2 < hist.warm_r2

\* C4 as stated: the rows of a batch handed to fit are disjoint from the rows
\* of the evaluation holdout.
C4_HoldoutDisjoint == (pc = "fit") => (batch_indices \cap indices_eval = {})

\* C5: a batch whose fit or scoring raises is skipped: the next step is the
\* next batch of the same epoch, no exception leaves the function, and a run
\* that returns has attempted the fit of every batch of every epoch.
C5_BatchNoFatal ==
    /\ [][(\/ pc = "fit" /\ pc' # "score"
           \/ pc = "score" /\ pc' # "update"
           \/ pc = "update")
            => /\ pc' = "batch"
               /\ start_idx' = start_idx + batch_size
               /\ epoch' = epoch
               /\ error' = ""]_vars
    /\ [](pc = "Done" => hist.tried = n_epochs * NBatches /\ returned # "none")

\* two epochs of two batches, some batch raised, the run returned
C5_Witness ==
    /\ pc = "Done"
    /\ hist.raised
    /\ n_epochs >= 2
    /\ NBatches >= 2
    /\ hist.tried = n_epochs * NBatches
    /\ returned = "mejor_modelo"

\* C6: the returned model is the checkpoint when one was set during the run
\* and the live pipeline otherwise, and it is the model that was handed to the
\* evaluator and the reporter.
C6_ModeloFinal ==
    pc = "Done" =>
        /\ returned = (IF CheckpointSet THEN "mejor_modelo" ELSE "modelo")
        /\ modelo_final = returned

\* the checkpoint is returned, not the last state of the live pipeline
C6_Witness ==
    /\ pc = "Done"
    /\ returned = "mejor_modelo"
    /\ modelo_final = "mejor_modelo"
    /\ modelo.st = "fit"
    /\ modelo.on # mejor_modelo.on

\* C7: once the cross-validation has been recorded as unavailable, or writing
\* the metrics or generating the report has failed, the function still goes
\* on to return, with no exception, the model selected before the failure.
C7_InformeNoFatal ==
    /\ resultados = "cv_unavailable" =>
          pc \in {"write", "report", "return", "Done"}
    /\ hist.report_failed => pc \in {"return", "Done"}
    /\ (resultados = "cv_unavailable" \/ hist.report_failed) =>
          /\ error = ""
          /\ modelo_final = (IF CheckpointSet THEN "mejor_modelo" ELSE "modelo")
          /\ (pc = "Done" => returned = modelo_final)

C7_Witness ==
    /\ pc = "Done"
    /\ hist.report_failed
    /\ returned = "mejor_modelo"
    /\ "informe_modelo.html" \notin artifacts

\* C8 as stated: with X or y empty, or different row counts, the function
\* fails before any fit is called on the pipeline.
C8_Validacion ==
    (nX = 0 \/ nY = 0 \/ nX # nY) =>
        /\ ~hist.fit_called
        /\ pc \in {"start", "Failed"}

\* C9 as stated: in incremental mode a loaded bundle whose model was trained
\* for another number of targets than the current data has is never the
\* pipeline handed to the engine: a fresh one is.
C9_AridadForzada ==
    (main_pc = "train" /\ incremental /\ bundle.exists /\ bundle.n_out # y_cols)
        => (m_modelo.origin = "fresh" /\ m_modelo.n_out = 0)

\* the stored manifest is the current one plus one column that the current
\* data has neither as a feature nor as a target
C10_Case ==
    /\ incremental
    /\ bundle.exists
    /\ Xcols # {}
    /\ columnas_procesadas \subseteq bundle.columnas
    /\ Cardinality(bundle.columnas \ columnas_procesadas) = 1
    /\ (bundle.columnas \ columnas_procesadas) \cap Xcols = {}

\* C10 as stated: loading a bundle whose manifest has one column the current
\* data lacks does not raise.
C10_DriftSinError == C10_Case => main_error # "KeyError"

\* C11 as stated: when the stored manifest differs from the current one and
\* the loaded model is reused, the run neither fails on the alignment nor
\* trains on anything but exactly the stored manifest's columns.
C11_Alineacion ==
    (/\ incremental
     /\ bundle.exists
     /\ m_modelo.origin = "loaded"
     /\ drift_log.logged
     /\ Xcols # {}
     /\ main_pc \in {"train", "crashed"})
        => (main_error # "KeyError" /\ Xcols = bundle.columnas)

\* C12 as stated: the manifest written into the bundle is the set of columns
\* of the X the saved pipeline was fitted on.
C12_ManifiestoGuardado ==
    [][(main_pc \in {"dump", "dump_full"}) => (bundle'.columnas = Xcols)]_vars

\* the positions right after the comparison of the two manifests
C13_Compared ==
    /\ bundle.exists
    /\ \/ main_pc \in {"train", "fit_full"}
       \/ main_pc = "crashed" /\ main_error = "KeyError"

C14_Determinismo ==
    (anterior.llamada = 2 /\ pc = "Done")
        => (indices = anterior.indices /\ indices_eval = anterior.indices_eval)

\* C15: a call of evaluar_modelo raises only out of its validation part, never
\* because the cross-validation failed; every returned result has the key cv;
\* when the cross-validation raised (too few samples for the folds, or any
\* exception of cross_val_score) every metric of cv is None, and otherwise cv
\* holds exactly the mean and the standard deviation of R2, RMSE and MSE.
C15_CvNuncaLanza ==
    ev_result.called =>
        LET cvfail == ev_args.n < CV_FOLDS \/ ev_args.cv_scores = "raise"
            res == ev_result.resultados
        IN /\ ev_result.raised =>
                (ev_args.X_val /\ ev_args.y_val /\ ev_args.predict = "Exception")
           /\ ~ev_result.raised =>
                /\ "cv" \in DOMAIN res
                /\ cvfail =>
                     /\ CvMetricas \subseteq DOMAIN res.cv
                     /\ \A k \in CvMetricas : res.cv[k] = "None"
                /\ ~cvfail =>
                     /\ DOMAIN res.cv = CvMetricas
                     /\ \A k \in CvMetricas :
                          res.cv[k] = (IF ev_args.cv_scores = "nan"
                                       THEN "nan" ELSE "valor")

\* cross_val_score raised on enough samples and the call still returned the
\* validation metrics
C15_Witness ==
    /\ ev_result.called
    /\ ~ev_result.raised
    /\ ev_args.n >= CV_FOLDS
    /\ ev_args.cv_scores = "raise"
    /\ ev_result.resultados.cv.r2_mean = "None"
    /\ "validation" \in DOMAIN ev_result.resultados
    /\ ev_result.resultados.validation.r2 = "valor"

\* C16 as stated: the call never raises; the key validation is returned
\* exactly when both X_val and y_val are given; a failure of the prediction or
\* of the scoring on the validation set leaves every validation metric None.
C16_ValidacionNuncaLanza ==
    ev_result.called =>
        /\ ~ev_result.raised
        /\ ("validation" \in DOMAIN ev_result.resultados)
              <=> (ev_args.X_val /\ ev_args.y_val)
        /\ (ev_args.X_val /\ ev_args.y_val /\ ev_args.predict # "ok") =>
              \A k \in ValMetricas : ev_result.resultados.validation[k] = "None"

\* a requested name is a column of the frame or has an alias that is
C17_Resuelve(c) ==
    \/ c \in sel_args.columns
    \/ /\ c \in DOMAIN mapeo_columnas
       /\ \E i \in DOMAIN mapeo_columnas[c] :
            mapeo_columnas[c][i] \in sel_args.columns

\* a column the selection falls back on is in the frame
C17_DefaultPresente ==
    IF sel_args.version = "addon"
    THEN sel_args.columns \cap DOMAIN mapeo_columnas # {}
    ELSE "ecommercePurchases" \in sel_args.columns

\* C17 as stated: the selection fails with the missing-target error exactly
\* when no requested name resolves and no default target is in the frame, and
\* when some requested name resolves it returns the resolved names in request
\* order with y taken from their physical columns.
C17_ObjetivoFaltante ==
    sel_result.called =>
        LET req == sel_args.columnas_objetivo
            resueltas == SelectSeq(req, C17_Resuelve)
        IN /\ (sel_result.raised # "")
                <=> (resueltas = <<>> /\ ~C17_DefaultPresente)
           /\ resueltas # <<>> =>
                /\ sel_result.raised = ""
                /\ sel_result.columnas = resueltas
                /\ \A i \in DOMAIN resueltas :
                     /\ sel_result.y[i] \in sel_args.columns
                     /\ \/ sel_result.y[i] = resueltas[i]
                        \/ /\ resueltas[i] \notin sel_args.columns
                           /\ sel_result.y[i] \in Range(mapeo_columnas[resueltas[i]])

\* C18: every temporary credential or data file created by the download,
\* credential-verification, CSV-import and train actions is deleted before the
\* action finishes, on every exit path: when a handler has finished, no
\* temporary file of it is left on disk.
C18_TemporalesBorrados ==
    a_pc = "fin" => tmp = {}

\* the run of the script started by the train action ended without a model
\* for data whose number of targets differs from the stored model's arity
C19_SinModelo ==
    /\ a_name = "entrenar"
    /\ runs = 1
    /\ main_pc \in {"exit", "crashed"}
    /\ bundle.exists
    /\ bundle.n_out # y_cols
    /\ m_resultados = NoResultados

\* C19: the train action never ends in the succeeded state (estado =
\* completado) for a run in which the model's output arity did not match the
\* number of target columns of the data and no model was produced: such a run
\* of the script ends with a non-zero exit status, which the action raises
\* before it writes completado.
C19_NuncaCompletado ==
    C19_SinModelo => estado # "completado"

\* the action has finished in error after such a run
C19_Witness ==
    /\ C19_SinModelo
    /\ a_pc = "fin"
    /\ main_pc = "crashed"
    /\ returncode # 0
    /\ estado = "error"
    /\ a_raised # ""

\* C20: when training succeeded but the metrics artifact contains sub-metrics
\* marked unavailable (None values or an error text), the train action still
\* presents the aggregated results and ends in completado rather than in
\* error (a failure of the zip or of the database write set aside).
C20_MetricasNoDisponibles ==
    (/\ a_name = "entrenar"
     /\ a_pc = "fin"
     /\ runs = 1
     /\ main_pc = "exit"
     /\ returncode = 0
     /\ FormatoFalla(resultados_json)
     /\ a_raised \notin {"Exception", "UserError"})
    => estado = "completado"

\* C21 as stated: the retained checkpoint changes only when a batch improves
\* the score, and then it becomes the fit of a fresh clone on exactly that
\* batch (with that batch's score); every other step, every later refit of
\* the live pipeline included, leaves its learned state as it is.
C21_CheckpointFijo ==
    [][(mejor_modelo' # mejor_modelo)
         => (pc = "update" /\ mejor_modelo' = FitOk(batch_indices, score))
      ]_vars

\* C22: there is no early stopping: while the loop runs, the step after a
\* batch is the next batch of range(0, n_samples, B) in order, whatever the
\* scores and whatever raised; an epoch ends only past the last batch, having
\* attempted ceil(n_samples / B) fits more; the finalization starts only
\* after epoch E, with E * ceil(n_samples / B) fits attempted.
C22_SinParadaTemprana ==
    /\ [](InLoop =>
            /\ epoch <= n_epochs
            /\ (pc # "epoch" => epoch < n_epochs)
            /\ start_idx % batch_size = 0
            /\ hist.tried = epoch * NBatches
                 + (IF pc = "epoch" THEN 0
                    ELSE Min(start_idx \div batch_size, NBatches)
                         + (IF pc \in {"score", "update"} THEN 1 ELSE 0)))
    /\ [](pc \in {"finalize", "write", "report", "return", "Done"} =>
            /\ epoch = n_epochs
            /\ hist.tried = n_epochs * NBatches)
    /\ [][(pc = "batch" /\ pc' = "epoch") => (start_idx >= nX)]_vars
    /\ [][(pc = "epoch" /\ pc' = "finalize") => (epoch = n_epochs)]_vars

\* a run of two epochs of two batches that reached the top score in its first
\* batch, had a batch raise, and went on to the end
C22_Witness ==
    /\ pc = "finalize"
    /\ n_epochs >= 2
    /\ NBatches >= 2
    /\ hist.raised
    /\ hist.best_batch = <<0, 0>>
    /\ mejor_score = MaxScore
    /\ hist.tried = n_epochs * NBatches

\* the k-th contiguous slice of size B of the shuffled index array
C23_Slice(k) ==
    {indices[i] : i \in (k * batch_size + 1)..Min((k + 1) * batch_size, nX)}

\* C23: in every epoch the batches partition a permutation of all row
\* indices: the shuffled array holds each of 0..n_samples-1 once, the batch
\* being fitted is the contiguous slice at its position, the slices are
\* non-empty, pairwise disjoint and cover every row, and each has B rows
\* except the last, which has between 1 and B.
C23_Particion ==
    pc \in {"batch", "fit", "score", "update"} =>
        /\ Len(indices) = nX
        /\ Range(indices) = Rows(nX)
        /\ \A k \in 0..(NBatches - 1) :
             /\ C23_Slice(k) # {}
             /\ Cardinality(C23_Slice(k)) <= batch_size
             /\ (k < NBatches - 1 => Cardinality(C23_Slice(k)) = batch_size)
             /\ \A j \in 0..(NBatches - 1) :
                  j # k => C23_Slice(j) \cap C23_Slice(k) = {}
        /\ UNION {C23_Slice(k) : k \in 0..(NBatches - 1)} = Rows(nX)
        /\ (pc \in {"fit", "score", "update"} =>
              /\ start_idx < nX
              /\ batch_indices = C23_Slice(start_idx \div batch_size))

\* the second batch of an epoch whose array is not in its initial order
C23_Witness ==
    /\ pc = "fit"
    /\ start_idx > 0
    /\ indices # Arange(nX)
    /\ Cardinality(batch_indices) = batch_size

C27_ScoreYCheckpoint ==
    InLoop =>
        /\ (mejor_modelo.st = "none" <=> mejor_score = NegInf)
        /\ (mejor_modelo.st # "none" =>
              /\ mejor_modelo.st = "fit"
              /\ mejor_modelo.r2 = mejor_score)

\* the model handed to the evaluator and the reporter (line 119)
C26_Final == IF modelo_final = "mejor_modelo" THEN mejor_modelo ELSE modelo

\* the imputer stage of that model has fitted statistics
C26_ImputerAjustado == C26_Final.st \in {"fit", "stale", "half"}

\* C26: evaluar_modelo never changes the learned state of the model it is
\* given; generar_informe leaves it unchanged when the imputer stage is
\* already fitted and refits the model, on the evaluation rows it was given,
\* only when the imputer stage has no fitted statistics.
C26_EstadoAprendido ==
    /\ [][(pc = "finalize") =>
            (modelo' = modelo /\ mejor_modelo' = mejor_modelo)]_vars
    /\ [][(pc = "report") =>
            /\ (C26_ImputerAjustado =>
                  /\ modelo' = modelo
                  /\ mejor_modelo' = mejor_modelo
                  /\ ~hist'.refit_in_report)
            /\ (modelo_final = "mejor_modelo" => modelo' = modelo)
            /\ (modelo_final = "modelo" => mejor_modelo' = mejor_modelo)
            /\ (hist'.refit_in_report =>
                  /\ ~C26_ImputerAjustado
                  /\ C26_Final'.st = "fit"
                  /\ C26_Final'.on = indices_eval)]_vars

\* the report was written for a fitted checkpoint, which it did not refit
C26_Witness ==
    /\ pc = "return"
    /\ modelo_final = "mejor_modelo"
    /\ mejor_modelo.st = "fit"
    /\ mejor_modelo.on # indices_eval
    /\ ~hist.refit_in_report
    /\ "informe_modelo.html" \in artifacts

\* C28 as stated: the X returned by the column selection holds no resolved
\* target, under its logical or its physical name, and no ratio feature of X
\* is computed from a column used as a target.
C28_SinObjetivosEnX ==
    (sel_args.version = "addon" /\ sel_result.called /\ sel_result.raised = "") =>
        /\ sel_result.X \cap (Range(sel_result.columnas) \cup Range(sel_result.y)) = {}
        /\ ("sessions_per_user" \in sel_result.X =>
              {"sessions", "activeUsers"} \cap Range(sel_result.y) = {})

\* some cell of the matrix is missing
C25_Faltantes ==
    \E j \in DOMAIN imp_X.columnas :
        \E i \in DOMAIN imp_X.columnas[j] : imp_X.columnas[j][i] = "nan"

\* C25 as stated: on the incremental path X holds no missing value at the
\* moment of the warm-start fit, whatever container type X had when it
\* reached the imputation step.
C25_SinFaltantes ==
    imp_pc = "warm" => ~C25_Faltantes

\* C29: once action_entrenar_modelo has got past its guard it finishes with
\* estado completado or error, never entrenando; completado only after the
\* script exited with code 0 and together with the stored archive; an
\* exception sets estado = error and leaves the handler, and error is set in
\* no other way.
C29_EstadoFinal ==
    (a_name = "entrenar" /\ a_pc = "fin" /\ a_in.datos) =>
        /\ estado \in {"completado", "error"}
        /\ (estado = "completado" =>
              /\ runs = 1
              /\ main_pc = "exit"
              /\ returncode = 0
              /\ registro.archivo
              /\ a_raised = "")
        /\ (estado = "error" <=> a_raised # "")
        /\ (registro.archivo => estado = "completado")

\* the script failed, the action ended in error and raised
C29_Witness ==
    /\ a_name = "entrenar"
    /\ a_pc = "fin"
    /\ main_pc = "crashed"
    /\ returncode = 1
    /\ estado = "error"
    /\ a_raised = "Exception"
    /\ ~registro.archivo

\* C30 as stated: action_descargar_datos ends either with estado_actual =
\* 'Error', progreso = 0 and no newly stored archivo_csv, or with
\* 'Completado', progreso = 100 and the stored file; never in an intermediate
\* progress state.
C30_EstadoDescarga ==
    (a_name = "descargar" /\ a_pc = "fin") =>
        \/ estado = "Error" /\ registro.progreso = 0 /\ ~registro.archivo
        \/ estado = "Completado" /\ registro.progreso = 100 /\ registro.archivo

====
